---- MODULE Spec2Model ----
(***************************************************************************)
(* net_monitor: the bandwidth aggregation engine of src/src/main.rs.       *)
(*                                                                         *)
(* Two threads share one Mutex<SharedStats>: the capture thread adds the   *)
(* length of every IPv4 frame to the accumulator, and the UI loop          *)
(* (run_app) calls App::on_tick once per tick interval, which reads the    *)
(* accumulator, updates the global history, the per-host estimators and    *)
(* the ranking, and clears the accumulator, all under the lock.            *)
(*                                                                         *)
(* Numbers: u64 counters are modelled as naturals; every value the model   *)
(* reaches is far below 2^53, where `as f64` is exact. An f64 rate is the  *)
(* exact quotient, kept as a fraction in lowest terms.                     *)
(***************************************************************************)
EXTENDS Integers, Sequences, FiniteSets, TLC

\* ----------------------------------------------------------------------
\* Constants of the program
\* ----------------------------------------------------------------------
TICK_RATE_MS == 500

\* 60 in the source; scaled down so that a window fills and evicts within
\* the ticks the model explores.
HISTORY_WINDOW_SECS == 1

MAX_SAMPLES == (HISTORY_WINDOW_SECS * 1000) \div TICK_RATE_MS

\* ----------------------------------------------------------------------
\* Bounds of the model
\* ----------------------------------------------------------------------
\* Spec: frames the capture thread delivers, and on_tick passes, in one run
MaxFrames == 2

MaxTicks == 3

\* SpecTicks: the same, for runs long enough to fill and empty a window
MaxFramesLong == 3

MaxTicksLong == 5

\* SpecEst: update calls on one estimator
MaxUpdates == 8

\* SpecHistory: on_tick passes fed to the global history buffers
MaxHistoryTicks == 4

\* SpecAttr: frames recorded, from any address to any address
MaxAttrFrames == 2

\* ----------------------------------------------------------------------
\* Addresses and frames
\* ----------------------------------------------------------------------
\* get_local_ip: the interface's address (a LAN address here)
local_ip == <<192, 168, 1, 10>>

peer_ip == <<10, 0, 0, 7>>

wan_ip == <<8, 8, 8, 8>>

Addrs == {local_ip, peer_ip, wan_ip}

\* the (source, destination) pairs of the frames the capture thread sees:
\* outbound from one LAN host, inbound to one LAN host, between two LAN
\* hosts, from a LAN host to itself, and between two hosts outside the LAN
FramePairs ==
    {<<local_ip, wan_ip>>, <<wan_ip, peer_ip>>, <<peer_ip, local_ip>>,
     <<peer_ip, peer_ip>>, <<wan_ip, wan_ip>>}

is_lan_ip(ip) == (ip[1] = 192 /\ ip[2] = 168) \/ (ip[1] = 10)

RECURSIVE Pow2(_)
Pow2(n) == IF n = 0 THEN 1 ELSE 2 * Pow2(n - 1)

\* packet.header.len of the i-th captured frame. Lengths are distinct powers
\* of two, so a sum of frame lengths tells which frames it is made of.
FrameLen(i) == Pow2(i - 1)

NoFrame == [src |-> <<0, 0, 0, 0>>, dst |-> <<0, 0, 0, 0>>, len |-> 0]

\* ----------------------------------------------------------------------
\* HashMap<Ipv4Addr, _> as a function on the set of its keys
\* ----------------------------------------------------------------------
EmptyMap == [x \in {} |-> 0]

\* map.get(&k).unwrap_or(&0)
Get(m, k) == IF k \in DOMAIN m THEN m[k] ELSE 0

MapPut(m, k, v) == [x \in (DOMAIN m) \cup {k} |-> IF x = k THEN v ELSE m[x]]

MapRemove(m, k) == [x \in (DOMAIN m) \ {k} |-> m[x]]

\* *map.entry(k).or_insert(0) += len
entry_add_overwrite(m, k, len) == MapPut(m, k, len)
entry_add(m, k, len) == MapPut(m, k, Get(m, k) + len)

\* the orders in which a HashMap may iterate over the keys S
Orders(S) ==
    {s \in [1..Cardinality(S) -> S] : \A i, j \in 1..Cardinality(S) : s[i] = s[j] => i = j}

\* ----------------------------------------------------------------------
\* f64 rates as exact fractions
\* ----------------------------------------------------------------------
RECURSIVE GCD(_, _)
GCD(a, b) == IF b = 0 THEN a ELSE GCD(b, a % b)

\* n / d as an f64 (d > 0)
Rat(n, d) == [num |-> n \div GCD(n, d), den |-> d \div GCD(n, d)]

\* a < b
RatLT(a, b) == a.num * b.den < b.num * a.den

RECURSIVE SeqSum(_)
SeqSum(s) == IF s = <<>> THEN 0 ELSE Head(s) + SeqSum(Tail(s))

\* ----------------------------------------------------------------------
\* IpHistory
\* ----------------------------------------------------------------------
IpHistory_new_padded == [samples |-> <<0>>, total_sum |-> 0]
IpHistory_new == [samples |-> <<>>, total_sum |-> 0]

\* IpHistory::update with MAX_SAMPLES = max_samples and TICK_RATE_MS = tick_ms:
\* the estimator after the call and the average rate the call returns.
update_no_evict(self, bytes, max_samples, tick_ms) ==
    LET pushed == Append(self.samples, bytes)
        sum1 == self.total_sum + bytes
    IN [history |-> [samples |-> pushed, total_sum |-> sum1],
        avg |-> Rat(sum1 * 1000, Len(pushed) * tick_ms)]
update_no_subtract(self, bytes, max_samples, tick_ms) ==
    LET pushed == Append(self.samples, bytes)
        sum1 == self.total_sum + bytes
        evict == Len(pushed) > max_samples
        samples2 == IF evict THEN Tail(pushed) ELSE pushed
    IN [history |-> [samples |-> samples2, total_sum |-> sum1],
        avg |-> Rat(sum1 * 1000, Len(samples2) * tick_ms)]
update_fixed_divisor(self, bytes, max_samples, tick_ms) ==
    LET pushed == Append(self.samples, bytes)
        sum1 == self.total_sum + bytes
        evict == Len(pushed) > max_samples
        samples2 == IF evict THEN Tail(pushed) ELSE pushed
        sum2 == IF evict THEN sum1 - Head(pushed) ELSE sum1
    IN [history |-> [samples |-> samples2, total_sum |-> sum2],
        avg |-> Rat(sum2 * 1000, max_samples * tick_ms)]
update_rate_per_tick(self, bytes, max_samples, tick_ms) ==
    LET pushed == Append(self.samples, bytes)
        sum1 == self.total_sum + bytes
        evict == Len(pushed) > max_samples
        samples2 == IF evict THEN Tail(pushed) ELSE pushed
        sum2 == IF evict THEN sum1 - Head(pushed) ELSE sum1
    IN [history |-> [samples |-> samples2, total_sum |-> sum2],
        avg |-> Rat(sum2, Len(samples2))]
update(self, bytes, max_samples, tick_ms) ==
    LET pushed == Append(self.samples, bytes)
        sum1 == self.total_sum + bytes
        evict == Len(pushed) > max_samples
        samples2 == IF evict THEN Tail(pushed) ELSE pushed
        sum2 == IF evict THEN sum1 - Head(pushed) ELSE sum1
        \* duration_secs = len * (tick_ms / 1000), kept in milliseconds
        duration_ms == Len(samples2) * tick_ms
    IN [history |-> [samples |-> samples2, total_sum |-> sum2],
        avg |-> IF duration_ms = 0 THEN Rat(0, 1) ELSE Rat(sum2 * 1000, duration_ms)]

\* ----------------------------------------------------------------------
\* App::on_tick, lines 143-150: one pass of the loop over all_ips.
\* The registry after the pass, and the snapshot with the host's entry
\* appended when the host is kept.
\* ----------------------------------------------------------------------
host_pass_keep_empty(histories, snapshot, ip, bytes_in, max_samples, tick_ms) ==
    LET history == IF ip \in DOMAIN histories THEN histories[ip] ELSE IpHistory_new
        r == update(history, bytes_in, max_samples, tick_ms)
    IN [ip_histories |-> MapPut(histories, ip, r.history),
        current_snapshot |-> Append(snapshot, <<ip, r.avg>>)]
host_pass_early_remove(histories, snapshot, ip, bytes_in, max_samples, tick_ms) ==
    LET history == IF ip \in DOMAIN histories THEN histories[ip] ELSE IpHistory_new
        r == update(history, bytes_in, max_samples, tick_ms)
    IN IF bytes_in > 0
       THEN [ip_histories |-> MapPut(histories, ip, r.history),
             current_snapshot |-> Append(snapshot, <<ip, r.avg>>)]
       ELSE [ip_histories |-> MapRemove(histories, ip),
             current_snapshot |-> snapshot]
host_pass(histories, snapshot, ip, bytes_in, max_samples, tick_ms) ==
    LET history == IF ip \in DOMAIN histories THEN histories[ip] ELSE IpHistory_new
        r == update(history, bytes_in, max_samples, tick_ms)
    IN IF r.history.total_sum > 0
       THEN [ip_histories |-> MapPut(histories, ip, r.history),
             current_snapshot |-> Append(snapshot, <<ip, r.avg>>)]
       ELSE [ip_histories |-> MapRemove(histories, ip),
             current_snapshot |-> snapshot]

\* current_snapshot.sort_by(|a, b| b.1.partial_cmp(&a.1).unwrap()): a stable
\* sort by rate, descending.
RECURSIVE InsertDesc(_, _)
InsertDesc(sorted, e) ==
    IF sorted = <<>> THEN <<e>>
    ELSE IF RatLT(Head(sorted)[2], e[2]) THEN <<e>> \o sorted
    ELSE <<Head(sorted)>> \o InsertDesc(Tail(sorted), e)

sort_desc_unsorted(s) == s
RECURSIVE sort_desc(_)
sort_desc(s) ==
    IF s = <<>> THEN <<>>
    ELSE InsertDesc(sort_desc(SubSeq(s, 1, Len(s) - 1)), s[Len(s)])

\* ----------------------------------------------------------------------
\* SharedStats and the capture thread's critical section (lines 200-212)
\* ----------------------------------------------------------------------
SharedStats_new == [traffic_delta |-> EmptyMap, rx_delta |-> 0, tx_delta |-> 0]

\* lines 201-205
record_global(s, f) ==
    IF f.src = local_ip
    THEN [s EXCEPT !.tx_delta = @ + f.len]
    ELSE [s EXCEPT !.rx_delta = @ + f.len]

\* lines 207-212
record_hosts_else(s, f) ==
    [s EXCEPT !.traffic_delta = IF is_lan_ip(f.src)
                                THEN entry_add(@, f.src, f.len)
                                ELSE IF is_lan_ip(f.dst)
                                     THEN entry_add(@, f.dst, f.len)
                                     ELSE @]
record_hosts(s, f) ==
    LET with_src == IF is_lan_ip(f.src)
                    THEN entry_add(s.traffic_delta, f.src, f.len)
                    ELSE s.traffic_delta
    IN [s EXCEPT !.traffic_delta = IF is_lan_ip(f.dst)
                                   THEN entry_add(with_src, f.dst, f.len)
                                   ELSE with_src]

\* ----------------------------------------------------------------------
\* App and App::on_tick (lines 99-158)
\* ----------------------------------------------------------------------
Zeros(n) == [i \in 1..n |-> 0]

App_new ==
    [rx_history |-> Zeros(MAX_SAMPLES), tx_history |-> Zeros(MAX_SAMPLES),
     total_rx_bytes |-> 0, total_tx_bytes |-> 0,
     peak_rx_rate |-> 0, peak_tx_rate |-> 0,
     ip_histories |-> EmptyMap, top_talkers |-> <<>>]

\* vec.remove(0); vec.push(x)
shift_push_grow(history, x) == Append(history, x)
shift_push(history, x) == Append(Tail(history), x)

\* lines 118-131
on_tick_globals_peak_latest(a, s) ==
    [a EXCEPT !.rx_history = shift_push(@, s.rx_delta),
              !.tx_history = shift_push(@, s.tx_delta),
              !.total_rx_bytes = @ + s.rx_delta,
              !.total_tx_bytes = @ + s.tx_delta,
              !.peak_rx_rate = s.rx_delta,
              !.peak_tx_rate = s.tx_delta]
on_tick_globals_no_tx_total(a, s) ==
    [a EXCEPT !.rx_history = shift_push(@, s.rx_delta),
              !.tx_history = shift_push(@, s.tx_delta),
              !.total_rx_bytes = @ + s.rx_delta,
              !.peak_rx_rate = IF s.rx_delta > @ THEN s.rx_delta ELSE @,
              !.peak_tx_rate = IF s.tx_delta > @ THEN s.tx_delta ELSE @]
on_tick_globals(a, s) ==
    [a EXCEPT !.rx_history = shift_push(@, s.rx_delta),
              !.tx_history = shift_push(@, s.tx_delta),
              !.total_rx_bytes = @ + s.rx_delta,
              !.total_tx_bytes = @ + s.tx_delta,
              !.peak_rx_rate = IF s.rx_delta > @ THEN s.rx_delta ELSE @,
              !.peak_tx_rate = IF s.tx_delta > @ THEN s.tx_delta ELSE @]

\* lines 134-139: the tracked hosts, then the hosts of the accumulator that
\* are not tracked, each group in the HashMap's iteration order
all_ips_orders_unfiltered(a, s) ==
    {old \o new : old \in Orders(DOMAIN a.ip_histories),
                  new \in Orders(DOMAIN s.traffic_delta)}
all_ips_orders(a, s) ==
    {old \o new : old \in Orders(DOMAIN a.ip_histories),
                  new \in Orders((DOMAIN s.traffic_delta) \ (DOMAIN a.ip_histories))}

\* lines 141-151: the loop over all_ips. reads: the bytes_in read for each ip.
RECURSIVE host_loop(_, _, _, _, _)
host_loop(histories, snapshot, reads, ips, s) ==
    IF ips = <<>>
    THEN [ip_histories |-> histories, current_snapshot |-> snapshot, reads |-> reads]
    ELSE LET ip == Head(ips)
             bytes_in == Get(s.traffic_delta, ip)
             r == host_pass(histories, snapshot, ip, bytes_in, MAX_SAMPLES, TICK_RATE_MS)
         IN host_loop(r.ip_histories, r.current_snapshot,
                      MapPut(reads, ip, bytes_in), Tail(ips), s)

\* lines 134-153
on_tick_hosts_recount(a, s, ips) ==
    LET r == host_loop(a.ip_histories, <<>>, EmptyMap, ips, s)
    IN [app |-> [a EXCEPT !.ip_histories = r.ip_histories,
                          !.top_talkers = sort_desc(r.current_snapshot),
                          !.total_rx_bytes = @ + s.rx_delta,
                          !.total_tx_bytes = @ + s.tx_delta],
        reads |-> r.reads]
on_tick_hosts(a, s, ips) ==
    LET r == host_loop(a.ip_histories, <<>>, EmptyMap, ips, s)
    IN [app |-> [a EXCEPT !.ip_histories = r.ip_histories,
                          !.top_talkers = sort_desc(r.current_snapshot)],
        reads |-> r.reads]

\* lines 155-157
on_tick_clear_keep_map(s) == [s EXCEPT !.rx_delta = 0, !.tx_delta = 0]
on_tick_clear(s) == [traffic_delta |-> EmptyMap, rx_delta |-> 0, tx_delta |-> 0]

\* ----------------------------------------------------------------------
\* Mutex<SharedStats>::lock returns once no thread holds the lock
\* ----------------------------------------------------------------------
lock_granted_always(m) == TRUE
lock_granted(m) == m = "free"

\* ----------------------------------------------------------------------
\* One estimator on its own: the configurations and the deltas it is fed
\* ----------------------------------------------------------------------
SourceCfg == [max_samples |-> MAX_SAMPLES, tick_ms |-> TICK_RATE_MS]

\* tick interval 1 s, window of 4 ticks
ScenarioCfg == [max_samples |-> 4, tick_ms |-> 1000]

Configs == {SourceCfg, ScenarioCfg}

Deltas == {0, 1, 100}

\* the global history buffers on their own: a buffer of 3 totals
HistoryCfg == [max_samples |-> 3, tick_ms |-> 1000]

HistoryConfigs == {SourceCfg, HistoryCfg}

\* the drained inbound and outbound totals the buffers are fed
RxTotals == {0, 5, 10, 20}

TxTotals == {0, 5}

\* App::new, lines 99-112, with buffers of n elements
App_with(n) == [App_new EXCEPT !.rx_history = Zeros(n), !.tx_history = Zeros(n)]
\* on_tick, lines 134-151, for one host ip whose drained delta is bytes_in:
\* the host is in all_ips when it is tracked or in the drained mapping
tick_one_host(histories, ip, bytes_in, max_samples, tick_ms) ==
    IF ip \in DOMAIN histories \/ bytes_in > 0
    THEN host_pass(histories, <<>>, ip, bytes_in, max_samples, tick_ms).ip_histories
    ELSE histories

\* ----------------------------------------------------------------------
\* State
\* ----------------------------------------------------------------------
VARIABLES
    \* SharedStats, behind the mutex
    stats,
    \* who holds the mutex: "free", "capture" or "ui"; "poisoned" when a
    \* thread has panicked while holding it (it is then free, and every
    \* lock() returns Err)
    mutex,
    \* the capture thread: its position and the frame it is recording
    cap_pc, frame,
    \* App (without last_tick)
    app,
    \* last_tick.elapsed() >= tick_rate
    tick_due,
    \* the UI thread's position
    ui_pc,
    \* history of the run: the frames captured so far; for each, the number
    \* of on_tick critical sections begun when its record began and when it
    \* returned (-1 until then); the number of on_tick critical sections
    \* begun; what each on_tick call read from the accumulator
    frames, rec_begin, rec_ret, ndrains, drains,
    \* SpecEst: the constants in force, one estimator, the deltas fed to it,
    \* the rates it returned, and a registry tracking one host fed the same
    \* deltas tick by tick
    est_cfg, est, est_fed, est_rates, est_reg

capture == <<cap_pc, frame>>
ui == <<tick_due, ui_pc>>
log == <<frames, rec_begin, rec_ret, ndrains, drains>>
estimator == <<est_cfg, est, est_fed, est_rates, est_reg>>
engine == <<stats, mutex, capture, app, ui, log>>

vars == <<engine, estimator>>

\* main, lines 184-188 and 225
InitEngine ==
    /\ stats = SharedStats_new
    /\ mutex = "free"
    /\ cap_pc = "next"
    /\ frame = NoFrame
    /\ app = App_new
    /\ tick_due = FALSE
    /\ ui_pc = "idle"
    /\ frames = <<>>
    /\ rec_begin = <<>>
    /\ rec_ret = <<>>
    /\ ndrains = 0
    /\ drains = <<>>

\* IpHistory::new and an empty registry
InitEstimator ==
    /\ est = IpHistory_new
    /\ est_fed = <<>>
    /\ est_rates = <<>>
    /\ est_reg = EmptyMap

Init == InitEngine /\ InitEstimator /\ est_cfg = SourceCfg

\* the process lives until run_app returns or the main thread panics
Running == ui_pc \notin {"exited", "panicked"}

\* the i-th frame the capture thread delivers
NextFrames(i) == {[src |-> p[1], dst |-> p[2], len |-> FrameLen(i)] : p \in FramePairs}

\* ----------------------------------------------------------------------
\* The capture thread (main, lines 191-217)
\* ----------------------------------------------------------------------
\* lines 192-198: the next IPv4 frame; the record of it begins
CaptureNext ==
    /\ Running
    /\ cap_pc = "next"
    /\ Len(frames) < MaxFrames
    /\ \E f \in NextFrames(Len(frames) + 1) : frame' = f
    /\ cap_pc' = "lock"
    /\ frames' = Append(frames, frame')
    /\ rec_begin' = Append(rec_begin, ndrains)
    /\ rec_ret' = Append(rec_ret, -1)
    /\ UNCHANGED <<stats, mutex, app, ui, ndrains, drains, estimator>>

\* line 200
CaptureLock ==
    /\ Running
    /\ cap_pc = "lock"
    /\ lock_granted(mutex)
    /\ mutex' = "capture"
    /\ cap_pc' = "global"
    /\ UNCHANGED <<stats, frame, app, ui, log, estimator>>

\* lines 201-205
CaptureGlobal_counts_total ==
    /\ Running
    /\ cap_pc = "global"
    /\ stats' = record_global(stats, frame)
    /\ app' = [app EXCEPT !.total_rx_bytes = @ + frame.len]
    /\ cap_pc' = "hosts"
    /\ UNCHANGED <<mutex, frame, ui, log, estimator>>
CaptureGlobal ==
    /\ Running
    /\ cap_pc = "global"
    /\ stats' = record_global(stats, frame)
    /\ cap_pc' = "hosts"
    /\ UNCHANGED <<mutex, frame, app, ui, log, estimator>>

\* lines 207-212
CaptureHosts ==
    /\ Running
    /\ cap_pc = "hosts"
    /\ stats' = record_hosts(stats, frame)
    /\ cap_pc' = "unlock"
    /\ UNCHANGED <<mutex, frame, app, ui, log, estimator>>

\* line 213: the guard is dropped; the record returns
CaptureUnlock ==
    /\ Running
    /\ cap_pc = "unlock"
    /\ mutex' = "free"
    /\ cap_pc' = "next"
    /\ rec_ret' = [rec_ret EXCEPT ![Len(frames)] = ndrains]
    /\ UNCHANGED <<stats, frame, app, ui, frames, rec_begin, ndrains, drains, estimator>>

\* ----------------------------------------------------------------------
\* The UI thread (run_app, lines 246-372)
\* ----------------------------------------------------------------------
\* lines 363-365: 'q' or 'c' ends run_app, and with it the process
UiQuit ==
    /\ ui_pc = "idle"
    /\ ui_pc' = "exited"
    /\ UNCHANGED <<stats, mutex, capture, app, tick_due, log, estimator>>

\* lines 362-368: the tick interval elapses
UiPoll ==
    /\ ui_pc = "idle"
    /\ ~tick_due
    /\ tick_due' = TRUE
    /\ UNCHANGED <<stats, mutex, capture, app, ui_pc, log, estimator>>

UiTick_not_due ==
    /\ ui_pc = "idle"
    /\ ndrains < MaxTicks
    /\ ui_pc' = "lock"
    /\ UNCHANGED <<stats, mutex, capture, app, tick_due, log, estimator>>
\* lines 368-369, the interval has elapsed: on_tick is called
UiTick ==
    /\ ui_pc = "idle"
    /\ tick_due
    /\ ndrains < MaxTicks
    /\ ui_pc' = "lock"
    /\ UNCHANGED <<stats, mutex, capture, app, tick_due, log, estimator>>

\* on_tick, line 115
OnTickLock ==
    /\ ui_pc = "lock"
    /\ lock_granted(mutex)
    /\ mutex' = "ui"
    /\ ui_pc' = "globals"
    /\ ndrains' = ndrains + 1
    /\ UNCHANGED <<stats, capture, app, tick_due, frames, rec_begin, rec_ret, drains,
                   estimator>>

\* on_tick, lines 118-131
OnTickGlobals ==
    /\ ui_pc = "globals"
    /\ app' = on_tick_globals(app, stats)
    /\ drains' = Append(drains, [rx |-> stats.rx_delta, tx |-> stats.tx_delta,
                                 hosts |-> EmptyMap])
    /\ ui_pc' = "hosts"
    /\ UNCHANGED <<stats, mutex, capture, tick_due, frames, rec_begin, rec_ret, ndrains,
                   estimator>>

\* on_tick, lines 134-153
OnTickHosts ==
    /\ ui_pc = "hosts"
    /\ \E ips \in all_ips_orders(app, stats) :
          LET r == on_tick_hosts(app, stats, ips)
          IN /\ app' = r.app
             /\ drains' = [drains EXCEPT ![Len(drains)].hosts = r.reads]
    /\ ui_pc' = "clear"
    /\ UNCHANGED <<stats, mutex, capture, tick_due, frames, rec_begin, rec_ret, ndrains,
                   estimator>>

\* on_tick, lines 155-157
OnTickClear ==
    /\ ui_pc = "clear"
    /\ stats' = on_tick_clear(stats)
    /\ ui_pc' = "unlock"
    /\ UNCHANGED <<mutex, capture, app, tick_due, log, estimator>>

\* on_tick, line 158: the guard is dropped and on_tick returns; run_app, line 370
OnTickUnlock ==
    /\ ui_pc = "unlock"
    /\ mutex' = "free"
    /\ tick_due' = FALSE
    /\ ui_pc' = "idle"
    /\ UNCHANGED <<stats, capture, app, log, estimator>>

Next ==
    \/ CaptureNext \/ CaptureLock \/ CaptureGlobal \/ CaptureHosts \/ CaptureUnlock
    \/ UiQuit \/ UiPoll \/ UiTick
    \/ OnTickLock \/ OnTickGlobals \/ OnTickHosts \/ OnTickClear \/ OnTickUnlock

\* The two threads, step by step
Spec == Init /\ [][Next]_vars

\* The two threads under a fair scheduler: a thread that can take its next
\* step inside on_tick or inside record eventually takes it, and the UI
\* thread waiting for a lock that stays free eventually gets it.
\* The per-host step of on_tick is enabled whenever the UI thread is at
\* "hosts", so that weak fairness for it says that the thread does not stay
\* there for ever.
OnTickBody == OnTickGlobals \/ OnTickClear \/ OnTickUnlock

RecordBody == CaptureGlobal \/ CaptureHosts \/ CaptureUnlock

SpecFair ==
    /\ Spec
    /\ WF_vars(OnTickLock)
    /\ WF_vars(OnTickBody)
    /\ []<>(ui_pc # "hosts")
    /\ WF_vars(RecordBody)

\* ----------------------------------------------------------------------
\* The two threads when the capture thread may panic inside record
\* ----------------------------------------------------------------------
\* lines 202-211: a `+=` on a u64 panics when it overflows and the build
\* checks overflow; the unwinding drops the guard, which poisons the mutex,
\* and ends the capture thread
CapturePanic ==
    /\ Running
    /\ cap_pc \in {"global", "hosts"}
    /\ mutex' = "poisoned"
    /\ cap_pc' = "panicked"
    /\ UNCHANGED <<stats, frame, app, ui, log, estimator>>

\* on_tick, line 115: lock() on a poisoned mutex returns Err and unwrap()
\* panics; the panic unwinds run_app and main
OnTickPoisoned_skip ==
    /\ ui_pc = "lock"
    /\ mutex = "poisoned"
    /\ ui_pc' = "idle"
    /\ tick_due' = FALSE
    /\ UNCHANGED <<stats, mutex, capture, app, log, estimator>>
OnTickPoisoned ==
    /\ ui_pc = "lock"
    /\ mutex = "poisoned"
    /\ ui_pc' = "panicked"
    /\ UNCHANGED <<stats, mutex, capture, app, tick_due, log, estimator>>

NextPoison == Next \/ CapturePanic \/ OnTickPoisoned

SpecPoison == Init /\ [][NextPoison]_vars

\* ----------------------------------------------------------------------
\* The same engine with each critical section as one step
\* ----------------------------------------------------------------------
\* the capture thread, lines 192-213
Record ==
    /\ Len(frames) < MaxFramesLong
    /\ \E f \in NextFrames(Len(frames) + 1) :
          /\ frame' = f
          /\ stats' = record_hosts(record_global(stats, f), f)
    /\ frames' = Append(frames, frame')
    /\ rec_begin' = Append(rec_begin, ndrains)
    /\ rec_ret' = Append(rec_ret, ndrains)
    /\ UNCHANGED <<mutex, cap_pc, app, ui, ndrains, drains, estimator>>

\* run_app, lines 368-370, with on_tick, lines 114-158
Tick ==
    /\ ndrains < MaxTicksLong
    /\ \E ips \in all_ips_orders(app, stats) :
          LET r == on_tick_hosts(on_tick_globals(app, stats), stats, ips)
          IN /\ app' = r.app
             /\ drains' = Append(drains, [rx |-> stats.rx_delta, tx |-> stats.tx_delta,
                                          hosts |-> r.reads])
    /\ stats' = on_tick_clear(stats)
    /\ ndrains' = ndrains + 1
    /\ UNCHANGED <<mutex, capture, ui, frames, rec_begin, rec_ret, estimator>>

NextTicks == Record \/ Tick

SpecTicks == Init /\ [][NextTicks]_vars

\* ----------------------------------------------------------------------
\* record on its own, for frames between any two addresses
\* ----------------------------------------------------------------------
\* 192.169.1.1 and 172.16.0.1: near misses of the two prefixes of is_lan_ip
AttrAddrs == Addrs \cup {<<192, 169, 1, 1>>, <<172, 16, 0, 1>>}

\* the capture thread, lines 192-213
RecordAny ==
    /\ Len(frames) < MaxAttrFrames
    /\ \E src \in AttrAddrs, dst \in AttrAddrs :
          LET f == [src |-> src, dst |-> dst, len |-> FrameLen(Len(frames) + 1)]
          IN /\ frame' = f
             /\ stats' = record_hosts(record_global(stats, f), f)
    /\ frames' = Append(frames, frame')
    /\ rec_begin' = Append(rec_begin, ndrains)
    /\ rec_ret' = Append(rec_ret, ndrains)
    /\ UNCHANGED <<mutex, cap_pc, app, ui, ndrains, drains, estimator>>

NextAttr == RecordAny

SpecAttr == Init /\ [][NextAttr]_vars

\* ----------------------------------------------------------------------
\* One estimator fed a sequence of deltas
\* ----------------------------------------------------------------------
InitEst == InitEngine /\ InitEstimator /\ est_cfg \in Configs

\* est.update(d), and one tick of a registry whose only host has delta d
EstUpdate ==
    /\ Len(est_fed) < MaxUpdates
    /\ \E d \in Deltas :
          LET r == update(est, d, est_cfg.max_samples, est_cfg.tick_ms)
          IN /\ est' = r.history
             /\ est_rates' = Append(est_rates, r.avg)
             /\ est_fed' = Append(est_fed, d)
             /\ est_reg' = tick_one_host(est_reg, peer_ip, d,
                                         est_cfg.max_samples, est_cfg.tick_ms)
    /\ UNCHANGED <<engine, est_cfg>>

NextEst == EstUpdate

SpecEst == InitEst /\ [][NextEst]_vars

\* ----------------------------------------------------------------------
\* The global update of on_tick fed a sequence of drained totals
\* ----------------------------------------------------------------------
InitHistory ==
    /\ est_cfg \in HistoryConfigs
    /\ app = App_with(est_cfg.max_samples)
    /\ stats = SharedStats_new
    /\ mutex = "free"
    /\ cap_pc = "next"
    /\ frame = NoFrame
    /\ tick_due = FALSE
    /\ ui_pc = "idle"
    /\ frames = <<>>
    /\ rec_begin = <<>>
    /\ rec_ret = <<>>
    /\ ndrains = 0
    /\ drains = <<>>
    /\ InitEstimator

\* on_tick, lines 118-131, when the accumulator holds the totals rx and tx
HistoryTick ==
    /\ ndrains < MaxHistoryTicks
    /\ \E rx \in RxTotals, tx \in TxTotals :
          LET s == [SharedStats_new EXCEPT !.rx_delta = rx, !.tx_delta = tx]
          IN /\ app' = on_tick_globals(app, s)
             /\ drains' = Append(drains, [rx |-> rx, tx |-> tx, hosts |-> EmptyMap])
    /\ ndrains' = ndrains + 1
    /\ UNCHANGED <<stats, mutex, capture, ui, frames, rec_begin, rec_ret, estimator>>

NextHistory == HistoryTick

SpecHistory == InitHistory /\ [][NextHistory]_vars

\* ----------------------------------------------------------------------
\* Reading the history of a run
\* ----------------------------------------------------------------------
Min(a, b) == IF a < b THEN a ELSE b

\* the last n elements of s
LastN(s, n) == SubSeq(s, Len(s) - n + 1, Len(s))

\* what frame f adds to the counter of the LAN host h
Contrib(f, h) ==
    (IF f.src = h /\ is_lan_ip(h) THEN f.len ELSE 0)
    + (IF f.dst = h /\ is_lan_ip(h) THEN f.len ELSE 0)

\* the record of frame i has returned
Returned(i) == rec_ret[i] >= 0

\* the bytes of host h that the records returned so far have added
RecordedFor(h) ==
    SeqSum([i \in 1..Len(frames) |-> IF Returned(i) THEN Contrib(frames[i], h) ELSE 0])

\* the delta of host h that the k-th on_tick read (0 when h was not in all_ips)
HostDelta(k, h) == Get(drains[k].hosts, h)

\* the bytes of host h that the on_tick calls so far have read
DrainedFor(h) == SeqSum([k \in 1..Len(drains) |-> HostDelta(k, h)])

\* frame i is part of the global totals the k-th on_tick read
Reflected(i, k) == ((drains[k].rx + drains[k].tx) \div FrameLen(i)) % 2 = 1

DrainsOf(i) == {k \in 1..Len(drains) : Reflected(i, k)}

InCaptureSection == cap_pc \in {"global", "hosts", "unlock"}

InDrainSection == ui_pc \in {"globals", "hosts", "clear", "unlock"}

\* ----------------------------------------------------------------------
\* C1. Exactly-once accounting. Whenever nobody holds the lock, for every
\* host the bytes read by the drains so far plus the bytes waiting in the
\* accumulator are the bytes of the records that have returned; when a
\* drain has read the accumulator, the drains have read, in total, exactly
\* the bytes of the records that have returned (so each drain reads the sum
\* of the records since the one before it); and no step but the drain's
\* reset decreases a host's counter.
\* ----------------------------------------------------------------------
C1_Conservation ==
    mutex = "free" =>
        \A h \in Addrs : DrainedFor(h) + Get(stats.traffic_delta, h) = RecordedFor(h)

C1_DrainExact ==
    ui_pc = "clear" => \A h \in Addrs : DrainedFor(h) = RecordedFor(h)

C1_Monotone ==
    ui_pc # "clear" =>
        \A h \in Addrs : Get(stats.traffic_delta, h)' >= Get(stats.traffic_delta, h)

C1_ExactlyOnce == [](C1_Conservation /\ C1_DrainExact) /\ [][C1_Monotone]_vars

\* two records to the local host, both read by one drain
C1_Witness ==
    /\ ui_pc = "clear"
    /\ Len(frames) = 2
    /\ Returned(1) /\ Returned(2)
    /\ Contrib(frames[1], local_ip) = 1
    /\ Contrib(frames[2], local_ip) = 2
    /\ HostDelta(Len(drains), local_ip) = 3

\* ----------------------------------------------------------------------
\* C2. Drain-boundary ordering. A drain begins when on_tick holds the lock.
\* A record that returned before the k-th drain began, and after the one
\* before it began, is reflected in the k-th drain; a record that began
\* after the k-th drain began is reflected neither in it nor in an earlier
\* one, and is reflected in a later one once it has returned and that drain
\* has read; every record, racing or not, is reflected in at most one
\* drain, and in exactly one once the drain after its return has read.
\* ----------------------------------------------------------------------
C2_DrainBoundary ==
    \A i \in 1..Len(frames) :
        /\ \A k \in 1..Len(drains) :
              /\ (Returned(i) /\ rec_ret[i] = k - 1) => Reflected(i, k)
              /\ rec_begin[i] >= k => ~Reflected(i, k)
        /\ Cardinality(DrainsOf(i)) <= 1
        /\ (Returned(i) /\ Len(drains) > rec_ret[i]) =>
              /\ Cardinality(DrainsOf(i)) = 1
              /\ \A k \in DrainsOf(i) : k > rec_begin[i]

\* a record that began before a drain began and took the lock after it,
\* and the next drain has read
C2_Witness ==
    \E i \in 1..Len(frames) :
        /\ Returned(i)
        /\ rec_begin[i] < rec_ret[i]
        /\ Len(drains) > rec_ret[i]

\* ----------------------------------------------------------------------
\* C3. Drain atomicity. The capture thread's critical section and
\* on_tick's never overlap; from on_tick's first read to its reset the
\* accumulator changes by nothing but that reset, which empties it; and
\* when on_tick releases the lock the accumulator is empty.
\* ----------------------------------------------------------------------
C3_MutualExclusion == ~(InCaptureSection /\ InDrainSection)

C3_ReadToClear ==
    ui_pc \in {"globals", "hosts", "clear"} =>
        \/ stats' = stats
        \/ ui_pc = "clear" /\ ui_pc' = "unlock" /\ stats' = SharedStats_new

C3_Release ==
    (mutex = "ui" /\ mutex' # "ui") => stats' = SharedStats_new

C3_DrainAtomic == []C3_MutualExclusion /\ [][C3_ReadToClear /\ C3_Release]_vars

\* on_tick has read traffic and reset the accumulator while a record waits
C3_Witness ==
    /\ ui_pc = "unlock"
    /\ cap_pc = "lock"
    /\ drains[Len(drains)].rx + drains[Len(drains)].tx > 0
    /\ stats = SharedStats_new

\* ----------------------------------------------------------------------
\* C4. Window-sum invariant: after every update, total_sum is the sum of
\* the samples in the window.
\* ----------------------------------------------------------------------
C4_WindowSum == est.total_sum = SeqSum(est.samples)

\* a nonzero sample has been evicted and the window is not empty of traffic
C4_Witness ==
    /\ Len(est_fed) > est_cfg.max_samples
    /\ est_fed[1] > 0
    /\ est.total_sum > 0

\* ----------------------------------------------------------------------
\* C5. Window bound: after k updates the window holds the last
\* min(k, W) deltas, so never more than W; an update on a full window
\* removes exactly the oldest sample and subtracts it from total_sum in
\* the same call.
\* ----------------------------------------------------------------------
C5_Length ==
    LET n == Min(Len(est_fed), est_cfg.max_samples)
    IN /\ Len(est.samples) <= est_cfg.max_samples
       /\ Len(est.samples) = n
       /\ est.samples = LastN(est_fed, n)

C5_Evict ==
    Len(est_fed') = Len(est_fed) + 1 =>
        LET d == est_fed'[Len(est_fed')]
        IN IF Len(est.samples) = est_cfg.max_samples
           THEN /\ est.samples' = Append(Tail(est.samples), d)
                /\ est.total_sum' = est.total_sum + d - Head(est.samples)
           ELSE /\ est.samples' = Append(est.samples, d)
                /\ est.total_sum' = est.total_sum + d

C5_WindowBound == []C5_Length /\ [][C5_Evict]_vars

C5_Witness ==
    /\ Len(est_fed) > est_cfg.max_samples
    /\ Len(est.samples) = est_cfg.max_samples
    /\ est_fed[1] # est_fed[Len(est_fed)]

\* ----------------------------------------------------------------------
\* C6. True moving average: the k-th update returns the sum of the last
\* min(k, W) deltas divided by min(k, W) tick intervals in seconds. With a
\* 1 s tick and W = 4, deltas 100,100,100,100,0,0 return
\* 100,100,100,100,75,50.
\* ----------------------------------------------------------------------
ScenarioDeltas == <<100, 100, 100, 100, 0, 0>>

ScenarioRates == <<100, 100, 100, 100, 75, 50>>

C6_MovingAverage ==
    \A k \in 1..Len(est_fed) :
        LET n == Min(k, est_cfg.max_samples)
            window == LastN(SubSeq(est_fed, 1, k), n)
        IN /\ est_rates[k] = Rat(SeqSum(window) * 1000, n * est_cfg.tick_ms)
           /\ (/\ est_cfg = ScenarioCfg
               /\ k <= Len(ScenarioDeltas)
               /\ SubSeq(est_fed, 1, k) = SubSeq(ScenarioDeltas, 1, k))
              => est_rates[k] = [num |-> ScenarioRates[k], den |-> 1]

C6_Witness ==
    /\ est_cfg = ScenarioCfg
    /\ est_fed = ScenarioDeltas

\* ----------------------------------------------------------------------
\* C7. Convergence: when the last W deltas fed are all the same d, the
\* update returns exactly d divided by the tick interval in seconds.
\* ----------------------------------------------------------------------
C7_Convergence ==
    \A k \in est_cfg.max_samples..Len(est_fed) :
        \A d \in Deltas :
            (\A j \in (k - est_cfg.max_samples + 1)..k : est_fed[j] = d)
                => est_rates[k] = Rat(d * 1000, est_cfg.tick_ms)

\* more than W updates with the constant delta 100
C7_Witness ==
    /\ Len(est_fed) > est_cfg.max_samples
    /\ \A j \in 1..Len(est_fed) : est_fed[j] = 100

\* ----------------------------------------------------------------------
\* C8. Host pruning. TrailingZeros(h): the number of the latest ticks in a
\* row in which on_tick read delta 0 for h. A host that has had traffic is
\* tracked, with a positive running sum and an entry in top_talkers, as
\* long as fewer than W zero ticks have followed its last traffic, and is
\* not tracked from the W-th zero tick until it has traffic again.
\* ----------------------------------------------------------------------
RECURSIVE ZerosBack(_, _)
ZerosBack(h, k) ==
    IF k = 0 \/ HostDelta(k, h) > 0 THEN 0 ELSE 1 + ZerosBack(h, k - 1)

TrailingZeros(h) == ZerosBack(h, Len(drains))

HadTraffic(h) == \E k \in 1..Len(drains) : HostDelta(k, h) > 0

Tracked(h) == h \in DOMAIN app.ip_histories

Ranked(h) == \E i \in 1..Len(app.top_talkers) : app.top_talkers[i][1] = h

C8_HostPruning ==
    \A h \in Addrs :
        HadTraffic(h) =>
            /\ Tracked(h) <=> TrailingZeros(h) < MAX_SAMPLES
            /\ Tracked(h) => (app.ip_histories[h].total_sum > 0 /\ Ranked(h))
            /\ ~Tracked(h) => ~Ranked(h)

\* W zero ticks after traffic: the host has just been removed
C8_Witness ==
    \E h \in Addrs :
        /\ HadTraffic(h)
        /\ TrailingZeros(h) = MAX_SAMPLES
        /\ ~Tracked(h)

\* ----------------------------------------------------------------------
\* C9 as stated: with a 1 s tick and W = 4, a host whose deltas are
\* 100,100,100,100,0,0 has running sum 0 at tick 6 and is removed on
\* tick 6.
\* ----------------------------------------------------------------------
C9_RemovedAtTick6 ==
    (est_cfg = ScenarioCfg /\ est_fed = ScenarioDeltas) =>
        (est.total_sum = 0 /\ peer_ip \notin DOMAIN est_reg)

\* ----------------------------------------------------------------------
\* C9, amended. With a 1 s tick and W = 4, a host whose deltas are
\* 100,100,100,100,0,0 has running sum 200 at tick 6 and is still tracked
\* on tick 6; after two more ticks with delta 0 its running sum is 0 at
\* tick 8 and it is removed on tick 8.
\* ----------------------------------------------------------------------
C9_RemovedAtTick8 ==
    est_cfg = ScenarioCfg =>
        /\ est_fed = ScenarioDeltas =>
              /\ est.total_sum = 200
              /\ peer_ip \in DOMAIN est_reg
              /\ est_reg[peer_ip].total_sum = 200
        /\ est_fed = ScenarioDeltas \o <<0>> =>
              /\ peer_ip \in DOMAIN est_reg
              /\ est_reg[peer_ip].total_sum = 100
        /\ est_fed = ScenarioDeltas \o <<0, 0>> =>
              /\ est.total_sum = 0
              /\ peer_ip \notin DOMAIN est_reg

C9_Witness ==
    /\ est_cfg = ScenarioCfg
    /\ est_fed = ScenarioDeltas \o <<0, 0>>
    /\ peer_ip \notin DOMAIN est_reg

\* ----------------------------------------------------------------------
\* C10. Bounded history: rx_history and tx_history hold exactly
\* MAX_SAMPLES elements in every state; they change only in on_tick's
\* global update, which drops the oldest element of each and appends the
\* drained total as the newest.
\* ----------------------------------------------------------------------
C10_Length ==
    /\ Len(app.rx_history) = MAX_SAMPLES
    /\ Len(app.tx_history) = MAX_SAMPLES

C10_Shift ==
    IF ui_pc = "globals" /\ ui_pc' = "hosts"
    THEN /\ SubSeq(app.rx_history', 1, MAX_SAMPLES - 1) = SubSeq(app.rx_history, 2, MAX_SAMPLES)
         /\ SubSeq(app.tx_history', 1, MAX_SAMPLES - 1) = SubSeq(app.tx_history, 2, MAX_SAMPLES)
         /\ app.rx_history'[MAX_SAMPLES] = stats.rx_delta
         /\ app.tx_history'[MAX_SAMPLES] = stats.tx_delta
    ELSE /\ app.rx_history' = app.rx_history
         /\ app.tx_history' = app.tx_history

C10_BoundedHistory == []C10_Length /\ [][C10_Shift]_vars

\* more ticks than the buffer is long, the newest total nonzero
C10_Witness ==
    /\ Len(drains) > MAX_SAMPLES
    /\ ui_pc = "idle"
    /\ app.rx_history[MAX_SAMPLES] > 0
    /\ app.rx_history[1] > 0

\* ----------------------------------------------------------------------
\* C11. History contents and counters: after t on_tick passes whose
\* drained inbound totals were x_1..x_t, rx_history holds the last N of
\* them, oldest first, left-padded with zeros while t < N; peak_rx_rate is
\* the largest of them and total_rx_bytes their sum; the same holds
\* outbound. With N = 3 and totals 10, 20, 5 the buffer is [10, 20, 5],
\* the peak 20 and the lifetime total 35.
\* ----------------------------------------------------------------------
DrainedRx == [k \in 1..Len(drains) |-> drains[k].rx]

DrainedTx == [k \in 1..Len(drains) |-> drains[k].tx]

\* the largest element of a sequence of naturals, 0 when it is empty
SeqMax(s) == IF s = <<>> THEN 0 ELSE CHOOSE m \in {s[i] : i \in 1..Len(s)} :
                                         \A i \in 1..Len(s) : s[i] <= m

C11_General ==
    LET N == est_cfg.max_samples
    IN /\ app.rx_history = LastN(Zeros(N) \o DrainedRx, N)
       /\ app.tx_history = LastN(Zeros(N) \o DrainedTx, N)
       /\ app.peak_rx_rate = SeqMax(DrainedRx)
       /\ app.peak_tx_rate = SeqMax(DrainedTx)
       /\ app.total_rx_bytes = SeqSum(DrainedRx)
       /\ app.total_tx_bytes = SeqSum(DrainedTx)

C11_Scenario ==
    (est_cfg = HistoryCfg /\ DrainedRx = <<10, 20, 5>>)
        => /\ app.rx_history = <<10, 20, 5>>
           /\ app.peak_rx_rate = 20
           /\ app.total_rx_bytes = 35

C11_HistoryContents == C11_General /\ C11_Scenario

\* the scenario's three ticks, then a fourth that evicts the first total
C11_Witness ==
    /\ est_cfg = HistoryCfg
    /\ DrainedRx = <<10, 20, 5, 0>>
    /\ app.rx_history = <<20, 5, 0>>
    /\ app.peak_rx_rate = 20
    /\ app.total_rx_bytes = 35

\* ----------------------------------------------------------------------
\* C12. Monotone counters: total_rx_bytes, total_tx_bytes, peak_rx_rate
\* and peak_tx_rate never decrease; they change only inside an on_tick
\* pass, and at most once per pass (in its global update, the first step
\* after the pass has taken the lock).
\* ----------------------------------------------------------------------
Counters == <<app.total_rx_bytes, app.total_tx_bytes, app.peak_rx_rate, app.peak_tx_rate>>

C12_Step ==
    /\ app.total_rx_bytes' >= app.total_rx_bytes
    /\ app.total_tx_bytes' >= app.total_tx_bytes
    /\ app.peak_rx_rate' >= app.peak_rx_rate
    /\ app.peak_tx_rate' >= app.peak_tx_rate
    /\ Counters' # Counters =>
          /\ InDrainSection
          /\ Len(drains) = ndrains - 1
          /\ Len(drains') = ndrains

C12_MonotoneCounters == [][C12_Step]_vars

\* two passes done: the first raised the inbound counters, the second
\* drained no inbound byte, left the inbound peak where it was and raised
\* the outbound counters
C12_Witness ==
    /\ ui_pc = "idle"
    /\ Len(drains) >= 2
    /\ app.peak_rx_rate > app.rx_history[MAX_SAMPLES]
    /\ app.total_rx_bytes = app.peak_rx_rate
    /\ app.tx_history[MAX_SAMPLES] > 0
    /\ app.peak_tx_rate = app.tx_history[MAX_SAMPLES]


\* ----------------------------------------------------------------------
\* C13. Ranking snapshot: after every on_tick pass top_talkers is sorted
\* by rate, descending; it has exactly one entry for each tracked host,
\* every tracked host has a nonzero running sum, and no other host has an
\* entry; each entry carries the rate of the host's estimator as this pass
\* left it, so that no entry survives from an earlier pass.
\* ----------------------------------------------------------------------
RankedHosts == {app.top_talkers[i][1] : i \in 1..Len(app.top_talkers)}

\* the rate of an estimator: its running sum over the seconds its window spans
RateOf(history) == Rat(history.total_sum * 1000, Len(history.samples) * TICK_RATE_MS)

C13_Sorted ==
    \A i, j \in 1..Len(app.top_talkers) :
        i < j => ~RatLT(app.top_talkers[i][2], app.top_talkers[j][2])

C13_OnePerHost ==
    /\ RankedHosts = DOMAIN app.ip_histories
    /\ Len(app.top_talkers) = Cardinality(DOMAIN app.ip_histories)
    /\ \A h \in DOMAIN app.ip_histories : app.ip_histories[h].total_sum > 0

C13_Rebuilt ==
    \A i \in 1..Len(app.top_talkers) :
        app.top_talkers[i][2] = RateOf(app.ip_histories[app.top_talkers[i][1]])

C13_RankingSnapshot == C13_Sorted /\ C13_OnePerHost /\ C13_Rebuilt

\* two hosts ranked with different rates, one of them through a tick in
\* which it had no traffic
C13_Witness ==
    /\ Len(app.top_talkers) = 2
    /\ RatLT(app.top_talkers[2][2], app.top_talkers[1][2])
    /\ \E h \in RankedHosts : HostDelta(Len(drains), h) = 0

\* ----------------------------------------------------------------------
\* C14. Once-per-tick update: in each on_tick pass, update is called
\* exactly once for each host that was tracked before the pass or is in
\* the drained mapping, with the host's delta, or 0 when the mapping has
\* none; no host is updated twice, none of them is skipped, and no other
\* host is touched. Seen from the estimators: each such host's window
\* advances by exactly one sample, its delta.
\* ----------------------------------------------------------------------
\* the hosts of all_ips at the start of a pass
DueHosts == (DOMAIN app.ip_histories) \cup (DOMAIN stats.traffic_delta)

\* a window after one more sample d
Advanced(samples, d) ==
    LET pushed == Append(samples, d)
    IN IF Len(pushed) > MAX_SAMPLES THEN Tail(pushed) ELSE pushed

SamplesBefore(h) ==
    IF h \in DOMAIN app.ip_histories THEN app.ip_histories[h].samples ELSE <<>>

C14_Step ==
    ndrains' = ndrains + 1 =>
        LET reads == drains'[Len(drains')].hosts
        IN /\ DOMAIN reads = DueHosts
           /\ \A h \in DueHosts :
                 LET d == Get(stats.traffic_delta, h)
                     after == Advanced(SamplesBefore(h), d)
                 IN /\ reads[h] = d
                    /\ IF SeqSum(after) > 0
                       THEN /\ h \in DOMAIN app.ip_histories'
                            /\ app.ip_histories'[h].samples = after
                       ELSE h \notin DOMAIN app.ip_histories'
           /\ \A h \in Addrs \ DueHosts : h \notin DOMAIN app.ip_histories'

C14_OncePerTick == [][C14_Step]_vars

\* the last pass updated a host it tracked that had no delta, and a host
\* it tracked that was in the drained mapping as well
C14_Witness ==
    /\ Len(drains) >= 2
    /\ \E h \in DOMAIN drains[Len(drains)].hosts :
          /\ HostDelta(Len(drains), h) = 0
          /\ h \in DOMAIN app.ip_histories
    /\ \E h \in DOMAIN drains[Len(drains)].hosts :
          /\ HostDelta(Len(drains), h) > 0
          /\ HostDelta(Len(drains) - 1, h) > 0

\* ----------------------------------------------------------------------
\* C15. Tick orchestrator: the consumer alternates between Idle and
\* Ticking. A pass starts only when the tick interval has elapsed; a pass
\* goes through lock, global update, per-host update with ranking, clear
\* and unlock in this order and nothing else, so that two passes never
\* overlap; when the consumer is Idle every pass begun has done its drain;
\* and, the lock being fair, every pass that starts returns to Idle.
\* ----------------------------------------------------------------------
Ticking == ui_pc \in {"lock", "globals", "hosts", "clear", "unlock"}

C15_Order ==
    ui_pc' # ui_pc =>
        \/ ui_pc = "idle" /\ ui_pc' = "exited"
        \/ ui_pc = "idle" /\ ui_pc' = "lock" /\ tick_due
        \/ ui_pc = "lock" /\ ui_pc' = "globals"
        \/ ui_pc = "globals" /\ ui_pc' = "hosts"
        \/ ui_pc = "hosts" /\ ui_pc' = "clear"
        \/ ui_pc = "clear" /\ ui_pc' = "unlock"
        \/ ui_pc = "unlock" /\ ui_pc' = "idle" /\ ~tick_due'

C15_IdleDone == ~Ticking => Len(drains) = ndrains

C15_TickOrchestrator ==
    /\ [][C15_Order]_vars
    /\ []C15_IdleDone
    /\ Ticking ~> ui_pc = "idle"

\* Idle again after two passes, the capture thread in the middle of a
\* record, the next interval not yet elapsed
C15_Witness ==
    /\ ui_pc = "idle"
    /\ ndrains = 2
    /\ ~tick_due
    /\ InCaptureSection

\* ----------------------------------------------------------------------
\* C16. Synchronization failure is fatal, never a skipped tick: when
\* on_tick finds the mutex poisoned the UI thread panics; the step changes
\* no field of App and leaves the accumulator as it is, nothing changes
\* after it, and a pass that has been called never returns to Idle without
\* having taken the lock and drained.
\* ----------------------------------------------------------------------
C16_Fatal ==
    (ui_pc = "lock" /\ mutex = "poisoned" /\ ui_pc' # ui_pc) =>
        /\ ui_pc' = "panicked"
        /\ app' = app
        /\ stats' = stats

C16_NoSkip ==
    /\ ui_pc = "lock" => ui_pc' \in {"lock", "globals", "panicked"}
    /\ ui_pc' = "idle" /\ ui_pc # "idle" => Len(drains') = ndrains' /\ mutex # "poisoned"
    /\ ui_pc = "panicked" => vars' = vars

C16_SyncFailureFatal == [][C16_Fatal /\ C16_NoSkip]_vars

\* the UI thread has panicked on its second tick; the first drained a
\* frame, the accumulator still holds what the capture thread added since
C16_Witness ==
    /\ ui_pc = "panicked"
    /\ ndrains = 1
    /\ app.total_rx_bytes + app.total_tx_bytes > 0
    /\ stats.rx_delta + stats.tx_delta > 0

\* ----------------------------------------------------------------------
\* C17. Per-frame attribution: one record of a frame (src, dst, len) adds
\* len to exactly one of the two global totals, tx_delta when src is the
\* local address and rx_delta otherwise; and, independently for src and
\* for dst, adds len to the address's counter iff the address satisfies
\* is_lan_ip. So a frame changes zero, one or two host counters, adds
\* 2 x len to one counter when src = dst is a LAN address, and changes no
\* other host's counter.
\* ----------------------------------------------------------------------
C17_Global ==
    IF frame'.src = local_ip
    THEN stats'.tx_delta = stats.tx_delta + frame'.len /\ stats'.rx_delta = stats.rx_delta
    ELSE stats'.rx_delta = stats.rx_delta + frame'.len /\ stats'.tx_delta = stats.tx_delta

C17_Hosts ==
    /\ \A h \in AttrAddrs :
          Get(stats'.traffic_delta, h) =
              Get(stats.traffic_delta, h)
              + (IF h = frame'.src /\ is_lan_ip(frame'.src) THEN frame'.len ELSE 0)
              + (IF h = frame'.dst /\ is_lan_ip(frame'.dst) THEN frame'.len ELSE 0)
    /\ DOMAIN stats'.traffic_delta =
          (DOMAIN stats.traffic_delta)
          \cup {h \in {frame'.src, frame'.dst} : is_lan_ip(h)}

C17_Step == Len(frames') = Len(frames) + 1 => C17_Global /\ C17_Hosts

C17_Attribution == [][C17_Step]_vars

\* a frame from a LAN host to itself, then a frame from the local address
\* to that host
C17_Witness ==
    /\ Len(frames) = 2
    /\ frames[1].src = peer_ip /\ frames[1].dst = peer_ip
    /\ frames[2].src = local_ip /\ frames[2].dst = peer_ip
    /\ stats.traffic_delta[peer_ip] = 2 * FrameLen(1) + FrameLen(2)
    /\ stats.traffic_delta[local_ip] = FrameLen(2)
    /\ stats.rx_delta = FrameLen(1)
    /\ stats.tx_delta = FrameLen(2)

\* ----------------------------------------------------------------------
\* C18. Producer frame condition: a step of the capture thread's record
\* changes only the shared accumulator; it leaves every field of App
\* (rx_history, tx_history, total_rx_bytes, total_tx_bytes, peak_rx_rate,
\* peak_tx_rate, ip_histories, top_talkers) unchanged, so that those
\* change only inside an on_tick pass.
\* ----------------------------------------------------------------------
C18_Step ==
    /\ capture' # capture => app' = app /\ ui' = ui
    /\ app' # app => InDrainSection /\ capture' = capture

C18_ProducerFrame == [][C18_Step]_vars

\* the capture thread has recorded a frame after a pass that drained
\* another: App holds the first frame only, the accumulator the second
C18_Witness ==
    /\ Len(frames) = 2
    /\ Returned(2)
    /\ ndrains = 1
    /\ ui_pc = "idle"
    /\ app.total_rx_bytes + app.total_tx_bytes = FrameLen(1)
    /\ stats.rx_delta + stats.tx_delta = FrameLen(2)

\* ----------------------------------------------------------------------
\* C19. Byte conservation: in every state in which no on_tick pass is in
\* progress, total_rx_bytes + total_tx_bytes + rx_delta + tx_delta is the
\* sum of the lengths of all frames recorded so far (those whose record
\* has added the frame to a global total), whatever the interleaving of
\* records and ticks.
\* ----------------------------------------------------------------------
\* the record of frame i has added its length to rx_delta or tx_delta
GloballyRecorded(i) ==
    Returned(i) \/ (i = Len(frames) /\ cap_pc \in {"hosts", "unlock"})

RecordedBytes ==
    SeqSum([i \in 1..Len(frames) |-> IF GloballyRecorded(i) THEN frames[i].len ELSE 0])

C19_ByteConservation ==
    ~InDrainSection =>
        app.total_rx_bytes + app.total_tx_bytes + stats.rx_delta + stats.tx_delta
            = RecordedBytes

\* an outbound frame drained by one pass, an inbound frame half recorded
\* while the next pass waits for the lock
C19_Witness ==
    /\ Len(frames) = 2
    /\ cap_pc = "hosts"
    /\ ui_pc = "lock"
    /\ ndrains = 1
    /\ app.total_tx_bytes = FrameLen(1)
    /\ stats.rx_delta = FrameLen(2)

\* ----------------------------------------------------------------------
\* C20. Registry lifecycle: after every on_tick pass a host is in
\* ip_histories iff it had a nonzero delta in at least one of the last
\* MAX_SAMPLES ticks; every estimator in ip_histories has total_sum > 0;
\* an estimator is created only in a pass whose drained mapping holds the
\* host; and the window of a tracked host holds the deltas since the tick
\* that created its estimator (the last MAX_SAMPLES of them), so that a
\* host that was removed and reappears starts with the new sample alone.
\* ----------------------------------------------------------------------
\* h had a nonzero delta in one of the MAX_SAMPLES ticks ending with tick j
Active(h, j) ==
    \E i \in 1..j : i > j - MAX_SAMPLES /\ HostDelta(i, h) > 0

\* the tick that created the estimator h has after tick j, when Active(h, j)
RECURSIVE BornAt(_, _)
BornAt(h, j) == IF j = 1 \/ ~Active(h, j - 1) THEN j ELSE BornAt(h, j - 1)

\* the deltas of h in the last n ticks
LastDeltas(h, n) == [i \in 1..n |-> HostDelta(Len(drains) - n + i, h)]

C20_Membership ==
    \A h \in Addrs :
        /\ Tracked(h) <=> Active(h, Len(drains))
        /\ Tracked(h) => app.ip_histories[h].total_sum > 0

C20_FreshWindow ==
    \A h \in Addrs :
        Tracked(h) =>
            LET age == Len(drains) - BornAt(h, Len(drains)) + 1
            IN app.ip_histories[h].samples = LastDeltas(h, Min(MAX_SAMPLES, age))

C20_Creation ==
    \A h \in Addrs :
        (~Tracked(h) /\ Tracked(h)') => h \in DOMAIN stats.traffic_delta

C20_RegistryLifecycle ==
    /\ [](C20_Membership /\ C20_FreshWindow)
    /\ [][C20_Creation]_vars

\* a host that had traffic, was removed after MAX_SAMPLES silent ticks and
\* has just reappeared: its window holds the new sample only
C20_Witness ==
    \E h \in Addrs :
        /\ Len(drains) > MAX_SAMPLES + 1
        /\ HostDelta(1, h) > 0
        /\ ~Active(h, Len(drains) - 1)
        /\ Tracked(h)
        /\ app.ip_histories[h].samples = <<HostDelta(Len(drains), h)>>
====
